---- MODULE Spec2Model ----
(***************************************************************************)
(* Model of the lambda-resource Concourse resource: one process run of     *)
(* /opt/resource/{check,in,out}.  CommandContext.Handle dispatches on the  *)
(* base name of argument 0, decodes stdin into the selected handler, runs  *)
(* it and encodes its response.  The source tree holds several revisions   *)
(* of the check and in handlers; the variable rev says which one is built  *)
(* into the binary of the run.                                             *)
(*                                                                         *)
(* Strings whose characters the code looks at (version numbers, file       *)
(* contents) are sequences of one-character strings; paths are sequences   *)
(* of path elements.  A Go pointer or nil-able value is None or Some(x).   *)
(***************************************************************************)
EXTENDS Integers, Sequences, FiniteSets, TLC

VARIABLES
    args0,        \* os.Args[0], as its path elements
    directory,    \* CommandContext.directory (os.Args[1], or "")
    handlerNil,   \* the ResourceHandler given to Handle is nil
    rev,          \* revision of the selected handler's source file
    commandName,  \* CommandContext.commandName
    pc,           \* position of the process
    cmd,          \* the handler's struct after json decoding
    marker,       \* req.Marker of the check loop
    newVersions,  \* newVersions of the check handler
    listed,       \* every version identifier the API has answered, in order
    res,          \* response returned by HandleCommand
    err,          \* error returned by HandleCommand
    stdout,       \* documents written to ctx.out
    log,          \* lines written to ctx.Log
    exit,         \* exit status of the process, None while it runs
    calls,        \* external Lambda API calls made, in order
    files,        \* files written by ctx.File / ctx.JSON
    reads,        \* ioutil.ReadFile calls of the handler with their answers
    invoked,      \* the answer of api.Invoke, None while it was not called
    answered,     \* error and NextMarker of each ListVersionsByFunction answer
    codeDir,      \* what the file system holds at the path of params.code_dir
    cwd           \* process working directory, relative to the start directory

vars == <<args0, directory, handlerNil, rev, commandName, pc, cmd, marker,
          newVersions, listed, res, err, stdout, log, exit, calls, files, reads,
          invoked, answered, codeDir, cwd>>

----------------------------------------------------------------------------
\* Bounds of the model

\* pages the API serves at most before it returns no continuation marker
MaxPages == 2
\* versions per page of ListVersionsByFunction
MaxPageLen == 2
\* levels of directories below the code directory
MaxDepth == 1
\* entries of one directory
MaxEntries == 2

----------------------------------------------------------------------------
\* Optional values and Go slices

None == <<>>
Some(x) == <<x>>
IsNil(o) == Len(o) = 0
Val(o) == o[1]

\* a Go slice: nil, or a (possibly empty) sequence of elements
NilSlice == [isNil |-> TRUE, elems |-> <<>>]
MakeSlice(s) == [isNil |-> FALSE, elems |-> s]
SliceAppend(sl, x) == [isNil |-> FALSE, elems |-> Append(sl.elems, x)]

RECURSIVE SeqsUpTo(_, _)
\* all sequences over S of length at most n
SeqsUpTo(S, n) ==
    IF n = 0 THEN {<<>>}
    ELSE LET shorter == SeqsUpTo(S, n - 1)
         IN shorter \cup {Append(s, x) : s \in shorter, x \in S}

Range(s) == {s[i] : i \in 1..Len(s)}
Distinct(s) == \A i, j \in 1..Len(s) : i # j => s[i] # s[j]

----------------------------------------------------------------------------
\* strconv.Atoi on a string given as its characters

Digits == {"0", "1", "2", "3", "4", "5", "6", "7", "8", "9"}

DigitValue(c) ==
    CASE c = "0" -> 0 [] c = "1" -> 1 [] c = "2" -> 2 [] c = "3" -> 3
      [] c = "4" -> 4 [] c = "5" -> 5 [] c = "6" -> 6 [] c = "7" -> 7
      [] c = "8" -> 8 [] c = "9" -> 9

RECURSIVE DecimalValue(_)
DecimalValue(s) ==
    IF s = <<>> THEN 0
    ELSE 10 * DecimalValue(SubSeq(s, 1, Len(s) - 1)) + DigitValue(s[Len(s)])

\* [ok, val]: an optional sign, then one or more decimal digits.  The strings
\* of the model are far shorter than the 19 digits where Atoi range-checks.
Atoi(s) ==
    LET signed == Len(s) > 0 /\ s[1] \in {"+", "-"}
        body == IF signed THEN Tail(s) ELSE s
    IN IF Len(body) = 0 \/ \E i \in 1..Len(body) : body[i] \notin Digits
       THEN [ok |-> FALSE, val |-> 0]
       ELSE [ok |-> TRUE,
             val |-> IF signed /\ s[1] = "-" THEN 0 - DecimalValue(body)
                     ELSE DecimalValue(body)]

----------------------------------------------------------------------------
\* The values of a run

LATEST == <<"$", "L", "A", "T", "E", "S", "T">>

\* version identifiers the Lambda API may list
Published == {LATEST, <<"2">>, <<"9">>, <<"1", "0">>, <<"x">>}

SomeSha == "sha256"

\* an entry of ListVersionsByFunction's Versions, or a function configuration
Config(v) == [Version |-> v, CodeSha256 |-> SomeSha]

\* concourse.ResourceVersion baselines handed to check (revision 1)
MapBaselines ==
    {None,
     Some([version |-> <<"2">>]),
     Some([version |-> <<"9">>]),
     Some([version |-> <<"9">>, alias |-> "PROD"]),
     Some([version |-> <<"x">>]),
     Some([timestamp |-> <<"7">>])}

\* *Version baselines handed to check (revision 2); a record without a
\* version field decodes to Version 0
StructBaselines ==
    {None} \cup
    {Some([CodeSha |-> SomeSha, Version |-> n, Timestamp |-> 0]) : n \in {0, 2, 9}}

\* path elements of os.Args[0]
Arg0s ==
    {<<"opt", "resource", "check">>, <<"opt", "resource", "in">>, <<"out">>,
     <<"opt", "resource", "lambda-resource-linux-amd64">>}

\* os.Args[1]: absent (""), a relative or an absolute directory
NoDirectory == [abs |-> FALSE, segs |-> <<>>]
Directories ==
    {NoDirectory, [abs |-> FALSE, segs |-> <<"dest">>],
     [abs |-> TRUE, segs |-> <<"tmp", "dest">>]}

\* filepath.Base: the last element of the path
Base(p) == IF Len(p) = 0 THEN "." ELSE p[Len(p)]

\* os.FileInfo of a regular file and of a directory, with what they hold;
\* files are the entries of the directory in the order Readdir lists them
RegularFile(name, data) == [Name |-> name, IsDir |-> FALSE, data |-> data, files |-> <<>>]
Directory(name, entries) == [Name |-> name, IsDir |-> TRUE, data |-> "", files |-> entries]

FilesOnDisk == {RegularFile("a.txt", "x"), RegularFile("a.txt", "y"), RegularFile("b.txt", "z")}
DirNames == {"sub"}

RECURSIVE Listings(_)
\* the possible contents of a directory with depth levels of directories
\* below it; the names in one directory are distinct
Listings(depth) ==
    LET entries ==
            FilesOnDisk \cup
            (IF depth = 0 THEN {}
             ELSE {Directory(n, l) : n \in DirNames, l \in Listings(depth - 1)})
    IN {s \in SeqsUpTo(entries, MaxEntries) :
            \A i, j \in 1..Len(s) : i # j => s[i].Name # s[j].Name}

\* what params.code_dir may name: a directory tree, or a regular file
CodeTrees ==
    {Directory("code", l) : l \in Listings(MaxDepth)} \cup {RegularFile("code", "x")}

\* the tree {a.txt, sub/b.txt}
ExampleTree ==
    Directory("code", <<RegularFile("a.txt", "x"),
                        Directory("sub", <<RegularFile("b.txt", "z")>>)>>)

\* revisions of the handler sources in the tree
Revisions(name) ==
    CASE name = "check" -> {1, 2}
      [] name = "in" -> {1, 2, 3}
      [] OTHER -> {1}

----------------------------------------------------------------------------
\* documents written to stdout by json.Encoder.Encode

JNull == [type |-> "null", elems |-> <<>>, version |-> None, metadata |-> NilSlice]
JArray(s) == [type |-> "array", elems |-> s, version |-> None, metadata |-> NilSlice]
JObject(r) ==
    [type |-> "object", elems |-> <<>>, version |-> r.Version, metadata |-> r.Metadata]
JRaw(t) == [type |-> t, elems |-> <<>>, version |-> None, metadata |-> NilSlice]

\* concourse.CommandResponse
Response(version, versions, metadata) ==
    [Version |-> version, Versions |-> versions, Metadata |-> metadata]
EmptyResponse == Response(None, NilSlice, NilSlice)

----------------------------------------------------------------------------
\* NewContext and the state before Handle runs

Init ==
    /\ args0 \in Arg0s
    /\ directory \in Directories
    /\ handlerNil \in BOOLEAN
    /\ commandName = Base(args0)
    /\ rev \in Revisions(commandName)
    /\ pc = "start"
    /\ cmd = None
    /\ marker = None
    /\ newVersions = NilSlice
    /\ listed = <<>>
    /\ res = None
    /\ err = None
    /\ stdout = <<>>
    /\ log = <<>>
    /\ exit = None
    /\ calls = <<>>
    /\ files = <<>>
    /\ reads = <<>>
    /\ invoked = None
    /\ answered = <<>>
    /\ codeDir = ExampleTree
    /\ cwd = NoDirectory

\* the arguments and the files on disk, which no step of Handle changes
UNCHANGED_ARGS == UNCHANGED <<args0, directory, handlerNil, rev, commandName, codeDir>>

\* os.Exit(code), or a run-time panic (status 2), or main returning (status 0)
Terminate(code) ==
    /\ pc' = "done"
    /\ exit' = Some(code)

\* HandleCommand returns (r, e)
Return(r, e) ==
    /\ pc' = "returned"
    /\ res' = r
    /\ err' = e

----------------------------------------------------------------------------
\* Errors returned by handlers: errors.New / errors.Wrap values, and the
\* typed resource.FunctionError

Error(msg) == [type |-> "error", msg |-> msg, fe |-> None]
\* mutant of FunctionErrorValue: a function error is reported like a failed
\* API call
FunctionErrorAsTransport(fe) == [type |-> "error", msg |-> "failed to invoke function", fe |-> None]
FunctionErrorValue(fe) == [type |-> "FunctionError", msg |-> fe.Message, fe |-> Some(fe)]

\* the command structs: Source, Version and Params after decoding
Source(alias) == [FunctionName |-> "Dummy", Alias |-> alias]

ZeroParams ==
    [Payload |-> None, PayloadFile |-> None, Alias |-> None,
     ZipFile |-> None, CodeDirectory |-> None, CodeFile |-> None,
     Version |-> None, VersionFile |-> None]

Command(source, version, params) ==
    [Source |-> source, Version |-> version, Params |-> params]

SourceAliases == {None, Some("PROD")}

\* what stdin can decode to for the check command
CheckCommands(r) ==
    {Command(Source(a), b, ZeroParams) :
        a \in SourceAliases,
        b \in IF r = 1 THEN MapBaselines ELSE StructBaselines}

----------------------------------------------------------------------------
\* CommandContext.Handle, first part: select the handler

\* mutant of KnownCommand: the default case is missing
KnownCommandAny(name) == TRUE
\* the cases of the switch on ctx.commandName other than default
KnownCommand(name) == name \in {"out", "in", "check"}

Dispatch ==
    /\ pc = "start"
    /\ IF KnownCommand(commandName)
       THEN IF handlerNil
            \* handler.OutHandler() / InHandler() / CheckHandler() is called
            \* on the nil interface before handler is compared with nil
            THEN /\ Terminate(2)
                 /\ UNCHANGED log
            ELSE /\ pc' = "decode"
                 /\ UNCHANGED <<exit, log>>
       ELSE /\ log' = Append(log, "unknown command")
            /\ Terminate(1)
    /\ UNCHANGED <<cmd, marker, newVersions, listed, res, err, stdout, calls,
                   files, reads, invoked, answered, cwd>>
    /\ UNCHANGED_ARGS

\* os.Chdir(dir) from the current working directory
ChangeDir(from, dir) ==
    IF dir.abs THEN dir ELSE [abs |-> from.abs, segs |-> from.segs \o dir.segs]

\* Change directory if specified; a failure is only logged
Chdir ==
    /\ pc = "chdir"
    /\ IF directory # NoDirectory
       THEN \E ok \in BOOLEAN :
              IF ok
              THEN /\ cwd' = ChangeDir(cwd, directory)
                   /\ UNCHANGED log
              ELSE /\ log' = Append(log, "failed to change directory")
                   /\ UNCHANGED cwd
       ELSE UNCHANGED <<cwd, log>>
    /\ pc' = "handler"
    /\ UNCHANGED <<cmd, marker, newVersions, listed, res, err, stdout, exit,
                   calls, files, reads, invoked, answered>>
    /\ UNCHANGED_ARGS

----------------------------------------------------------------------------
\* check, revision 1 (concourse.ResourceVersion maps)

getVersionNumber(v) ==
    IF IsNil(v) THEN None
    ELSE IF "version" \in DOMAIN Val(v) /\ Atoi(Val(v).version).ok
         THEN Some(Atoi(Val(v).version).val)
         ELSE None

\* the condition under which a listed version is appended to newVersions
IsNewVersion(incomingVersion, itemVersion) ==
    IsNil(incomingVersion) \/ itemVersion > Val(incomingVersion)

RECURSIVE ScanVersionsUnfiltered(_, _, _)
\* mutant of ScanVersions: every listed identifier is appended as it is
ScanVersionsUnfiltered(page, incomingVersion, acc) ==
    IF page = <<>> THEN acc
    ELSE ScanVersionsUnfiltered(Tail(page), incomingVersion,
             [failed |-> FALSE,
              nv |-> SliceAppend(acc.nv, [version |-> Head(page).Version])])
RECURSIVE ScanVersionsSkipping(_, _, _)
\* mutant of ScanVersions: an identifier that does not parse is skipped
ScanVersionsSkipping(page, incomingVersion, acc) ==
    IF page = <<>> THEN acc
    ELSE LET v == Head(page).Version
             a == Atoi(v)
         IN IF v # LATEST /\ a.ok /\ IsNewVersion(incomingVersion, a.val)
            THEN ScanVersionsSkipping(Tail(page), incomingVersion,
                                      [failed |-> FALSE,
                                       nv |-> SliceAppend(acc.nv, [version |-> v])])
            ELSE ScanVersionsSkipping(Tail(page), incomingVersion, acc)
RECURSIVE ScanVersions(_, _, _)
\* the loop over versions.Versions; acc is [failed, nv], failed when a
\* version identifier does not parse
ScanVersions(page, incomingVersion, acc) ==
    IF page = <<>> THEN acc
    ELSE LET v == Head(page).Version
             a == Atoi(v)
         IN IF v = LATEST
            THEN ScanVersions(Tail(page), incomingVersion, acc)
            ELSE IF ~a.ok
            THEN [failed |-> TRUE, nv |-> acc.nv]
            ELSE IF IsNewVersion(incomingVersion, a.val)
            THEN ScanVersions(Tail(page), incomingVersion,
                              [failed |-> FALSE,
                               nv |-> SliceAppend(acc.nv, [version |-> v])])
            ELSE ScanVersions(Tail(page), incomingVersion, acc)

RECURSIVE LexicalLess(_, _)
LexicalLess(s, t) ==
    IF Len(t) = 0 THEN FALSE
    ELSE IF Len(s) = 0 THEN TRUE
    ELSE IF s[1] # t[1] THEN DigitValue(s[1]) < DigitValue(t[1])
    ELSE LexicalLess(Tail(s), Tail(t))

\* mutant of ByVersionLess: the version strings compared as strings
ByVersionLessLexical(a, b) == LexicalLess(a.version, b.version)

\* ByVersion.Less: it panics when a version does not parse
ByVersionLess(a, b) == Atoi(a.version).val < Atoi(b.version).val
ByVersionPanics(s) == Len(s) > 1 /\ \E i \in 1..Len(s) : ~Atoi(s[i].version).ok

RECURSIVE InsertByVersion(_, _)
InsertByVersion(sorted, x) ==
    IF sorted = <<>> THEN <<x>>
    ELSE IF ByVersionLess(x, Head(sorted)) THEN <<x>> \o sorted
    ELSE <<Head(sorted)>> \o InsertByVersion(Tail(sorted), x)

RECURSIVE SortByVersion(_)
\* sort.Sort(ByVersion(newVersions)); the keys of the elements are distinct,
\* so the order sort.Sort produces is the one computed here
SortByVersion(s) ==
    IF s = <<>> THEN <<>>
    ELSE InsertByVersion(SortByVersion(SubSeq(s, 1, Len(s) - 1)), s[Len(s)])

\* newVersions[len(newVersions)-1:] when cmd.Version == nil
NeedsTruncation(version) == IsNil(version)
TruncatePanics(sl) == Len(sl.elems) = 0
\* mutant of Truncate: the first element is kept instead of the last
TruncateKeepsFirst(sl) == MakeSlice(<<sl.elems[1]>>)
Truncate(sl) == MakeSlice(<<sl.elems[Len(sl.elems)]>>)

\* mutant of NextRequestMarker: the loop asks for the first page again
NextRequestMarkerNone(ans) == None
\* req.Marker = versions.NextMarker
NextRequestMarker(ans) == ans.NextMarker

\* what ListVersionsByFunction can answer once the versions in seen were
\* listed and n pages were served: an error, or a page of versions not
\* listed before, with a continuation marker unless it is the last page
Markers == {"m1", "m2"}
ListAnswers(seen, n) ==
    {[error |-> TRUE, Versions |-> <<>>, NextMarker |-> None]} \cup
    {[error |-> FALSE, Versions |-> [i \in 1..Len(p) |-> Config(p[i])], NextMarker |-> m] :
        p \in {q \in SeqsUpTo(Published \ Range(seen), MaxPageLen) : Distinct(q)},
        m \in {None} \cup (IF n + 1 < MaxPages THEN {Some(k) : k \in Markers} ELSE {})}

PagesServed == Len(calls)

\* one iteration of the paging loop of revision 1; on the last page the
\* handler sorts, truncates and returns
CheckListVersions ==
    /\ pc \in {"handler", "listing"}
    /\ commandName = "check"
    /\ rev = 1
    /\ IsNil(Val(cmd).Source.Alias)
    /\ \E ans \in ListAnswers(listed, PagesServed) :
         LET incomingVersion == getVersionNumber(Val(cmd).Version)
             scan == ScanVersions(ans.Versions, incomingVersion,
                                  [failed |-> FALSE, nv |-> newVersions])
             sorted == [isNil |-> scan.nv.isNil, elems |-> SortByVersion(scan.nv.elems)]
         IN /\ calls' = Append(calls, [op |-> "ListVersionsByFunction",
                                        name |-> Val(cmd).Source.FunctionName,
                                        arg |-> marker])
            /\ answered' = Append(answered, [error |-> ans.error,
                                              NextMarker |-> ans.NextMarker])
            /\ IF ans.error
               THEN /\ Return(None, Some(Error("failed to list versions")))
                    /\ UNCHANGED <<marker, newVersions, listed, exit>>
               ELSE /\ listed' = listed \o [i \in 1..Len(ans.Versions) |-> ans.Versions[i].Version]
                    /\ IF scan.failed
                       THEN /\ Return(None, Some(Error("failed to parse function version")))
                            /\ newVersions' = scan.nv
                            /\ UNCHANGED <<marker, exit>>
                       ELSE IF ~IsNil(ans.NextMarker)
                       THEN /\ marker' = NextRequestMarker(ans)
                            /\ newVersions' = scan.nv
                            /\ pc' = "listing"
                            /\ UNCHANGED <<res, err, exit>>
                       ELSE IF ByVersionPanics(scan.nv.elems)
                               \/ (NeedsTruncation(Val(cmd).Version) /\ TruncatePanics(sorted))
                       THEN /\ Terminate(2)
                            /\ newVersions' = sorted
                            /\ UNCHANGED <<marker, res, err>>
                       ELSE /\ newVersions' = IF NeedsTruncation(Val(cmd).Version)
                                              THEN Truncate(sorted) ELSE sorted
                            /\ Return(Some(Response(None, newVersions', NilSlice)), None)
                            /\ UNCHANGED <<marker, exit>>
    /\ UNCHANGED <<cmd, stdout, log, files, reads, invoked, cwd>>
    /\ UNCHANGED_ARGS

\* what GetFunctionConfiguration can answer for the alias
ConfigAnswers ==
    {[error |-> TRUE, Config |-> Config(<<>>)]} \cup
    {[error |-> FALSE, Config |-> Config(v)] : v \in Published}

\* the aliased branch of revision 1
CheckAlias ==
    /\ pc = "handler"
    /\ commandName = "check"
    /\ rev = 1
    /\ ~IsNil(Val(cmd).Source.Alias)
    /\ \E ans \in ConfigAnswers :
         LET incomingVersion == getVersionNumber(Val(cmd).Version)
             a == Atoi(ans.Config.Version)
         IN /\ calls' = Append(calls, [op |-> "GetFunctionConfiguration",
                                        name |-> Val(cmd).Source.FunctionName,
                                        arg |-> Val(cmd).Source.Alias])
            /\ listed' = IF ans.error THEN listed ELSE Append(listed, ans.Config.Version)
            /\ IF ans.error
               THEN /\ Return(None, Some(Error("failed to check configuration")))
                    /\ UNCHANGED newVersions
               ELSE IF ~a.ok
               THEN /\ Return(None, Some(Error("failed to parse function version")))
                    /\ UNCHANGED newVersions
               ELSE /\ newVersions' =
                         IF IsNewVersion(incomingVersion, a.val)
                         THEN SliceAppend(newVersions,
                                          [version |-> ans.Config.Version,
                                           alias |-> Val(Val(cmd).Source.Alias)])
                         ELSE newVersions
                    /\ Return(Some(Response(None, newVersions', NilSlice)), None)
    /\ UNCHANGED <<cmd, marker, stdout, log, exit, files, reads, invoked, answered, cwd>>
    /\ UNCHANGED_ARGS

----------------------------------------------------------------------------
\* check, revision 2 (resource.Version structs, unparsable versions skipped)

VersionStruct(n, sha) == [CodeSha |-> sha, Version |-> n, Timestamp |-> 0]

\* unaliased: cmd.Version == nil || version > cmd.Version.Version
IsNewVersionRev2(baseline, version) ==
    IsNil(baseline) \/ version > Val(baseline).Version

\* aliased: cmd.Version == nil || version != cmd.Version.Version
IsChangedVersionRev2(baseline, version) ==
    IsNil(baseline) \/ version # Val(baseline).Version

RECURSIVE ScanVersionsRev2(_, _, _)
ScanVersionsRev2(page, baseline, nv) ==
    IF page = <<>> THEN nv
    ELSE LET v == Head(page).Version
             a == Atoi(v)
         IN IF v = LATEST \/ ~a.ok
            THEN ScanVersionsRev2(Tail(page), baseline, nv)
            ELSE IF IsNewVersionRev2(baseline, a.val)
            THEN ScanVersionsRev2(Tail(page), baseline,
                     SliceAppend(nv, VersionStruct(a.val, Head(page).CodeSha256)))
            ELSE ScanVersionsRev2(Tail(page), baseline, nv)

ByVersionLessRev2(a, b) == a.Version < b.Version

RECURSIVE InsertByVersionRev2(_, _)
InsertByVersionRev2(sorted, x) ==
    IF sorted = <<>> THEN <<x>>
    ELSE IF ByVersionLessRev2(x, Head(sorted)) THEN <<x>> \o sorted
    ELSE <<Head(sorted)>> \o InsertByVersionRev2(Tail(sorted), x)

RECURSIVE SortByVersionRev2(_)
SortByVersionRev2(s) ==
    IF s = <<>> THEN <<>>
    ELSE InsertByVersionRev2(SortByVersionRev2(SubSeq(s, 1, Len(s) - 1)), s[Len(s)])

\* one iteration of the paging loop of revision 2; on the last page the
\* handler sorts, truncates, copies into the response and returns
CheckListVersionsRev2 ==
    /\ pc \in {"handler", "listing"}
    /\ commandName = "check"
    /\ rev = 2
    /\ IsNil(Val(cmd).Source.Alias)
    /\ \E ans \in ListAnswers(listed, PagesServed) :
         LET nv == ScanVersionsRev2(ans.Versions, Val(cmd).Version, newVersions)
             sorted == [isNil |-> nv.isNil, elems |-> SortByVersionRev2(nv.elems)]
         IN /\ calls' = Append(calls, [op |-> "ListVersionsByFunction",
                                        name |-> Val(cmd).Source.FunctionName,
                                        arg |-> marker])
            /\ answered' = Append(answered, [error |-> ans.error,
                                              NextMarker |-> ans.NextMarker])
            /\ IF ans.error
               THEN /\ Return(None, Some(Error("failed to list versions")))
                    /\ UNCHANGED <<marker, newVersions, listed, exit>>
               ELSE /\ listed' = listed \o [i \in 1..Len(ans.Versions) |-> ans.Versions[i].Version]
                    /\ IF ~IsNil(ans.NextMarker)
                       THEN /\ marker' = NextRequestMarker(ans)
                            /\ newVersions' = nv
                            /\ pc' = "listing"
                            /\ UNCHANGED <<res, err, exit>>
                       ELSE IF NeedsTruncation(Val(cmd).Version) /\ TruncatePanics(sorted)
                       THEN /\ Terminate(2)
                            /\ newVersions' = sorted
                            /\ UNCHANGED <<marker, res, err>>
                       ELSE /\ newVersions' = IF NeedsTruncation(Val(cmd).Version)
                                              THEN Truncate(sorted) ELSE sorted
                            /\ Return(Some(Response(None, MakeSlice(newVersions'.elems),
                                                    NilSlice)), None)
                            /\ UNCHANGED <<marker, exit>>
    /\ UNCHANGED <<cmd, stdout, log, files, reads, invoked, cwd>>
    /\ UNCHANGED_ARGS

\* the aliased branch of revision 2
CheckAliasRev2 ==
    /\ pc = "handler"
    /\ commandName = "check"
    /\ rev = 2
    /\ ~IsNil(Val(cmd).Source.Alias)
    /\ \E ans \in ConfigAnswers :
         LET a == Atoi(ans.Config.Version)
         IN /\ calls' = Append(calls, [op |-> "GetFunctionConfiguration",
                                        name |-> Val(cmd).Source.FunctionName,
                                        arg |-> Val(cmd).Source.Alias])
            /\ listed' = IF ans.error THEN listed ELSE Append(listed, ans.Config.Version)
            /\ IF ans.error
               THEN /\ Return(None, Some(Error("failed to check configuration")))
                    /\ UNCHANGED newVersions
               ELSE IF ~a.ok
               THEN /\ Return(None, Some(Error("could not parse function version")))
                    /\ UNCHANGED newVersions
               ELSE /\ newVersions' =
                         IF IsChangedVersionRev2(Val(cmd).Version, a.val)
                         THEN SliceAppend(newVersions,
                                          VersionStruct(a.val, ans.Config.CodeSha256))
                         ELSE newVersions
                    /\ Return(Some(Response(None, MakeSlice(newVersions'.elems),
                                            NilSlice)), None)
    /\ UNCHANGED <<cmd, marker, stdout, log, exit, files, reads, invoked, answered, cwd>>
    /\ UNCHANGED_ARGS

----------------------------------------------------------------------------
\* Files: ioutil.ReadFile answers and the scoped writers of the context

ReadAnswers(contents) ==
    {[error |-> TRUE, data |-> <<>>]} \cup
    {[error |-> FALSE, data |-> d] : d \in contents}

\* path.Join(ctx.directory, name)
JoinDirectory(dir, name) == [abs |-> dir.abs, segs |-> dir.segs \o <<name>>]

\* the file ioutil.WriteFile creates for a path, seen from the start directory
WrittenPath(from, p) ==
    IF p.abs THEN p ELSE [abs |-> from.abs, segs |-> from.segs \o p.segs]

\* CommandContext.File: the entry added to files when the write succeeds
FileEntry(from, dir, name, data) ==
    [path |-> WrittenPath(from, JoinDirectory(dir, name)), data |-> data]

----------------------------------------------------------------------------
\* in: InvokeFunction, PersistResult and the three revisions of the handler

\* inline payloads of params.payload and their json.Marshal encoding
Payloads == {"object"}
Marshal(v) ==
    CASE v = "object" -> <<"{", "}">>
      [] OTHER -> <<"n", "u", "l", "l">>

PayloadFileContents == {<<>>, <<"{", "}">>}

PayloadSpec(params) == [Payload |-> params.Payload, PayloadFile |-> params.PayloadFile]

HasPayload(spec) == ~IsNil(spec.Payload) \/ ~IsNil(spec.PayloadFile)

\* payloadData: [failed, data]
payloadData(spec, read) ==
    IF ~IsNil(spec.Payload)
    THEN [failed |-> FALSE, data |-> Marshal(Val(spec.Payload))]
    ELSE IF ~IsNil(spec.PayloadFile)
    THEN [failed |-> read.error, data |-> read.data]
    ELSE [failed |-> FALSE, data |-> <<>>]

\* the ioutil.ReadFile call payloadData makes, with its answer
PayloadReads(spec, read) ==
    IF IsNil(spec.Payload) /\ ~IsNil(spec.PayloadFile)
    THEN <<[path |-> Val(spec.PayloadFile), error |-> read.error, data |-> read.data]>>
    ELSE <<>>

\* mutant of SkipsInvoke: the API is called whatever the payload data
SkipsInvokeNever(data) == FALSE
\* InvokeFunction skips the API call when there is no payload data
SkipsInvoke(data) == Len(data) = 0

\* name[:alias]
QualifiedName(name, alias) ==
    IF IsNil(alias) THEN name ELSE name \o ":" \o Val(alias)

\* lambda.InvokeOutput values the API can answer with, or an error
GoodPayload == "result"
ErrorPayload == "errorMessage"
BadPayload == "garbage"
InvokeOutput(fe, payload) == [FunctionError |-> fe, Payload |-> payload]
InvokeAnswers ==
    {[error |-> TRUE, out |-> InvokeOutput(None, "")],
     [error |-> FALSE, out |-> InvokeOutput(None, GoodPayload)],
     [error |-> FALSE, out |-> InvokeOutput(Some("Handled"), ErrorPayload)],
     [error |-> FALSE, out |-> InvokeOutput(Some("Unhandled"), BadPayload)]}

\* json.Unmarshal(result.Payload, &functionError)
UnmarshalFunctionError(payload) ==
    IF payload = ErrorPayload
    THEN [ok |-> TRUE,
          fe |-> [Message |-> "boom", Type |-> "Handled", StackTrace |-> <<"at f">>]]
    ELSE [ok |-> FALSE, fe |-> [Message |-> "", Type |-> "", StackTrace |-> <<>>]]

\* InvokeFunction: [result, err, calls]
InvokeFunction(source, alias, spec, read, ans) ==
    LET pd == payloadData(spec, read)
        call == [op |-> "Invoke",
                 name |-> QualifiedName(source.FunctionName, alias),
                 arg |-> Some(pd.data)]
        fe == UnmarshalFunctionError(ans.out.Payload)
    IN IF pd.failed
       THEN [result |-> None, err |-> Some(Error("failed to get payload data")),
             calls |-> <<>>]
       ELSE IF SkipsInvoke(pd.data)
       THEN [result |-> None, err |-> None, calls |-> <<>>]
       ELSE IF ans.error
       THEN [result |-> None, err |-> Some(Error("failed to invoke function")),
             calls |-> <<call>>]
       ELSE IF ~IsNil(ans.out.FunctionError)
       THEN [result |-> Some(ans.out),
             err |-> IF fe.ok THEN Some(FunctionErrorValue(fe.fe))
                     ELSE Some(Error("failed to unmarshal function error")),
             calls |-> <<call>>]
       ELSE [result |-> Some(ans.out), err |-> None, calls |-> <<call>>]

\* PersistResult: [err, files]; jsonOk and fileOk say whether the two writes
\* succeed
PersistResult(from, dir, result, jsonOk, fileOk) ==
    IF ~jsonOk
    THEN [err |-> Some(Error("failed to persist invocation result")), files |-> <<>>]
    ELSE IF ~fileOk
    THEN [err |-> Some(Error("failed to persist result payload")),
          files |-> <<FileEntry(from, dir, "result.json", "InvokeOutput")>>]
    ELSE [err |-> None,
          files |-> <<FileEntry(from, dir, "result.json", "InvokeOutput"),
                      FileEntry(from, dir, "result.payload.json", result.Payload)>>]

\* errors.Wrap(e, msg): nil stays nil
Wrap(e, msg) == IF IsNil(e) THEN None ELSE Some(Error(msg))

\* mutant of EffectiveAlias: params.alias is not looked at
EffectiveAliasOfSource(c) == c.Source.Alias
\* alias := cmd.Source.Alias; if cmd.Params.Alias != nil { alias = cmd.Params.Alias }
EffectiveAlias(c) == IF ~IsNil(c.Params.Alias) THEN c.Params.Alias ELSE c.Source.Alias

\* strconv.FormatInt(time.Now().Unix(), 10)
Timestamps == {<<"1", "7">>, <<"1", "8">>}
TimestampVersion(now) == [timestamp |-> now]

\* the answers of the environment to one run of the in handler
InEnvs ==
    [read : ReadAnswers(PayloadFileContents), invoke : InvokeAnswers,
     logOk : BOOLEAN, jsonOk : BOOLEAN, fileOk : BOOLEAN, now : Timestamps]

\* what the handler returns once the function was invoked (result != nil)
InvokedReturn(persisted) ==
    [res |-> None, err |-> Wrap(persisted.err, "failed to persist invoke result")]

\* in, revision 1: not invoking the function is an error
InHandleCommand ==
    /\ pc = "handler"
    /\ commandName = "in"
    /\ rev = 1
    /\ \E env \in InEnvs :
         LET c == Val(cmd)
             inv == InvokeFunction(c.Source, EffectiveAlias(c), PayloadSpec(c.Params),
                                   env.read, env.invoke)
             per == PersistResult(cwd, directory, Val(inv.result), env.jsonOk, env.fileOk)
         IN /\ calls' = calls \o inv.calls
            /\ reads' = reads \o PayloadReads(PayloadSpec(c.Params), env.read)
            /\ invoked' = IF inv.calls = <<>> THEN invoked ELSE Some(env.invoke)
            /\ IF ~IsNil(inv.err)
               THEN /\ Return(None, inv.err)
                    /\ UNCHANGED <<files, log>>
               ELSE IF ~IsNil(inv.result)
               THEN /\ Return(InvokedReturn(per).res, InvokedReturn(per).err)
                    /\ files' = files \o per.files
                    /\ UNCHANGED log
               ELSE /\ Return(None, Some(Error("function wasn't invoked")))
                    /\ UNCHANGED <<files, log>>
    /\ UNCHANGED <<cmd, marker, newVersions, listed, answered, stdout, exit, cwd>>
    /\ UNCHANGED_ARGS

\* in, revision 2: not invoking the function yields an empty response
InHandleCommandRev2 ==
    /\ pc = "handler"
    /\ commandName = "in"
    /\ rev = 2
    /\ \E env \in InEnvs :
         LET c == Val(cmd)
             inv == InvokeFunction(c.Source, EffectiveAlias(c), PayloadSpec(c.Params),
                                   env.read, env.invoke)
             per == PersistResult(cwd, directory, Val(inv.result), env.jsonOk, env.fileOk)
         IN /\ calls' = calls \o inv.calls
            /\ reads' = reads \o PayloadReads(PayloadSpec(c.Params), env.read)
            /\ invoked' = IF inv.calls = <<>> THEN invoked ELSE Some(env.invoke)
            /\ IF ~IsNil(inv.err)
               THEN /\ Return(None, inv.err)
                    /\ UNCHANGED <<files, log>>
               ELSE IF ~IsNil(inv.result)
               THEN /\ Return(InvokedReturn(per).res, InvokedReturn(per).err)
                    /\ files' = files \o per.files
                    /\ log' = Append(log, "successfully invoked function")
               ELSE /\ Return(Some(EmptyResponse), None)
                    /\ log' = Append(log, "function was not invoked")
                    /\ UNCHANGED files
    /\ UNCHANGED <<cmd, marker, newVersions, listed, answered, stdout, exit, cwd>>
    /\ UNCHANGED_ARGS

\* the value of cmd.Version["version"]: "" when the key is missing
VersionEntry(m) == IF "version" \in DOMAIN m THEN m.version ELSE <<>>

\* in, revision 3: the function is invoked only if HasPayload; without a
\* payload the incoming version is persisted and echoed
InHandleCommandRev3 ==
    /\ pc = "handler"
    /\ commandName = "in"
    /\ rev = 3
    /\ \E env \in InEnvs :
         LET c == Val(cmd)
             inv == InvokeFunction(c.Source, EffectiveAlias(c), PayloadSpec(c.Params),
                                   env.read, env.invoke)
             per == PersistResult(cwd, directory, Val(inv.result), env.jsonOk, env.fileOk)
         IN IF HasPayload(PayloadSpec(c.Params))
            THEN /\ calls' = calls \o inv.calls
                 /\ reads' = reads \o PayloadReads(PayloadSpec(c.Params), env.read)
                 /\ invoked' = IF inv.calls = <<>> THEN invoked ELSE Some(env.invoke)
                 /\ IF ~IsNil(inv.err)
                    THEN /\ Return(None, inv.err)
                         /\ UNCHANGED <<files, log>>
                    ELSE IF ~IsNil(inv.result)
                    THEN IF ~env.logOk
                         THEN /\ log' = Append(log, "successfully invoked function:")
                              /\ Return(None, Some(Error("failed to print payload")))
                              /\ UNCHANGED files
                         ELSE /\ log' = log \o <<"successfully invoked function:",
                                                 Val(inv.result).Payload>>
                              /\ Return(InvokedReturn(per).res, InvokedReturn(per).err)
                              /\ files' = files \o per.files
                    ELSE /\ Return(Some(Response(Some(TimestampVersion(env.now)),
                                                 NilSlice, NilSlice)), None)
                         /\ UNCHANGED <<files, log>>
            ELSE /\ UNCHANGED <<calls, log, reads, invoked>>
                 /\ IF ~IsNil(c.Version)
                    THEN IF env.fileOk
                         THEN /\ files' = Append(files,
                                     FileEntry(cwd, directory, "version",
                                               VersionEntry(Val(c.Version))))
                              /\ Return(Some(Response(c.Version, NilSlice, NilSlice)), None)
                         ELSE /\ Return(None, Some(Error("failed to persist version")))
                              /\ UNCHANGED files
                    ELSE /\ Return(Some(Response(c.Version, NilSlice, NilSlice)), None)
                         /\ UNCHANGED files
    /\ UNCHANGED <<cmd, marker, newVersions, listed, answered, stdout, exit, cwd>>
    /\ UNCHANGED_ARGS

\* what stdin can decode to for the in command
InParams(payload, payloadFile, alias) ==
    [ZeroParams EXCEPT !.Payload = payload, !.PayloadFile = payloadFile, !.Alias = alias]

InCommands(r) ==
    {Command(Source(a), v, InParams(p, f, pa)) :
        a \in SourceAliases,
        v \in IF r = 3 THEN {None, Some([version |-> <<"9">>]),
                             Some([timestamp |-> <<"7">>])}
              ELSE {None},
        p \in {None} \cup {Some(x) : x \in Payloads},
        f \in {None, Some("payload.json")},
        pa \in {None, Some("TEST")}}

----------------------------------------------------------------------------
\* out: publish code and tag a version with an alias

\* mutant of TrimRight: a single trailing character of the cutset is removed
TrimRightOnce(s, cutset) ==
    IF Len(s) > 0 /\ s[Len(s)] \in cutset THEN SubSeq(s, 1, Len(s) - 1) ELSE s

RECURSIVE TrimRight(_, _)
\* bytes.TrimRight(s, cutset)
TrimRight(s, cutset) ==
    IF Len(s) > 0 /\ s[Len(s)] \in cutset
    THEN TrimRight(SubSeq(s, 1, Len(s) - 1), cutset)
    ELSE s

VersionCutset == {"\n", "\r"}

VersionFileContents ==
    {<<"4", "2", "\n">>, <<"4", "2", "\r", "\n">>, <<"4", "2">>,
     <<"\n">>, <<"a", "b", "c", "\n">>}

ParamVersions == {None, Some(<<>>), Some(<<"7">>), Some(<<"a", "b", "c">>)}

\* version := cmd.Params.Version, replaced by the content of the version
\* file when one is named: [failed, version]
ResolveVersion(params, read) ==
    IF ~IsNil(params.VersionFile)
    THEN IF read.error
         THEN [failed |-> TRUE, version |-> None]
         ELSE [failed |-> FALSE, version |-> Some(TrimRight(read.data, VersionCutset))]
    ELSE [failed |-> FALSE, version |-> params.Version]

\* the ioutil.ReadFile call for the version file, with its answer
VersionReads(params, read) ==
    IF ~IsNil(params.VersionFile)
    THEN <<[path |-> Val(params.VersionFile), error |-> read.error, data |-> read.data]>>
    ELSE <<>>

\* mutant of VersionSanityError: only the empty string is refused
VersionSanityOnlyEmpty(version) ==
    IF ~IsNil(version) /\ Len(Val(version)) = 0
    THEN Some(Error("empty version string")) ELSE None

\* Version number sanity check: the error it raises, if any
VersionSanityError(version) ==
    IF IsNil(version) THEN None
    ELSE IF Len(Val(version)) = 0 THEN Some(Error("empty version string"))
    ELSE IF ~Atoi(Val(version)).ok THEN Some(Error("is not a valid version integer"))
    ELSE None

hasCodePayload(params) ==
    ~IsNil(params.ZipFile) \/ ~IsNil(params.CodeDirectory) \/ ~IsNil(params.CodeFile)

\* the bytes handed to UpdateFunctionCode: the content of a zip file read
\* from disk, or the entries of an archive built by zip.Writer
ZipFileBytes == [origin |-> "zip_file", entries |-> <<>>]
Archive(entries) == [origin |-> "zip.Writer", entries |-> entries]
NoBytes == [origin |-> "", entries |-> <<>>]

\* zipHandleFile: w.Create(zipFilePath), then io.Copy of the file's content
zipHandleFile(w, zipFilePath, info) ==
    Append(w, [name |-> zipFilePath, data |-> info.data])

\* mutant of SubArchivePath: files of subdirectories are archived flat
SubArchivePathFlat(zipFilePath) == ""
\* the archivePath handed to the recursion for a subdirectory
SubArchivePath(zipFilePath) == zipFilePath \o "/"

RECURSIVE zipRecurse(_, _, _)
\* zipRecurse(w, dirPath, archivePath, directory): [failed, w], with w the
\* entries of the archive in the order written; dirPath only names the
\* files to open
zipRecurse(w, archivePath, dirInfo) ==
    LET RECURSIVE loop(_, _)
        loop(infos, acc) ==
            IF infos = <<>> THEN [failed |-> FALSE, w |-> acc]
            ELSE LET info == Head(infos)
                     zipFilePath == archivePath \o info.Name
                 IN IF info.IsDir
                    THEN LET sub == zipRecurse(acc, SubArchivePath(zipFilePath), info)
                         IN IF sub.failed THEN sub ELSE loop(Tail(infos), sub.w)
                    ELSE loop(Tail(infos), zipHandleFile(acc, zipFilePath, info))
    IN IF ~dirInfo.IsDir THEN [failed |-> TRUE, w |-> w]
       ELSE loop(dirInfo.files, w)

\* codePayload: [failed, data]; ok says whether the files and directories
\* could be opened and read, root is what code_dir names
codePayload(params, ok, root) ==
    IF ~IsNil(params.ZipFile)
    THEN IF ok THEN [failed |-> FALSE, data |-> ZipFileBytes]
         ELSE [failed |-> TRUE, data |-> NoBytes]
    ELSE IF ~IsNil(params.CodeDirectory)
    THEN LET zipped == zipRecurse(<<>>, "", root)
         IN IF ok /\ ~zipped.failed
            THEN [failed |-> FALSE, data |-> Archive(zipped.w)]
            ELSE [failed |-> TRUE, data |-> NoBytes]
    ELSE IF ~IsNil(params.CodeFile)
    THEN IF ok
         THEN [failed |-> FALSE,
               data |-> Archive(<<[name |-> Base(Val(params.CodeFile)),
                                        data |-> "code_file"]>>)]
         ELSE [failed |-> TRUE, data |-> NoBytes]
    ELSE [failed |-> FALSE, data |-> NoBytes]

\* lambda.FunctionConfiguration answered by UpdateFunctionCode, or an error
NewVersions == {<<"1", "1">>}
UpdateAnswers ==
    {[error |-> TRUE, Version |-> <<>>, CodeSha256 |-> SomeSha]} \cup
    {[error |-> FALSE, Version |-> v, CodeSha256 |-> SomeSha] : v \in NewVersions}

Meta(name, value) == [Name |-> name, Value |-> value]
UploadMetadata ==
    <<Meta("arn", "FunctionArn"), Meta("runtime", "Runtime"),
      Meta("timeout", "Timeout"), Meta("memory", "MemorySize")>>

\* the alias put tags the version with
TagAlias(c) == c.Params.Alias

\* Tag the version with an alias: the condition of the UpdateAlias call
TagsAlias(c, version) == ~IsNil(TagAlias(c)) /\ ~IsNil(version)

\* mutant of TaggedVersion: the alias is not put into the version record
TaggedVersionWithoutAlias(respVersion, alias, version) ==
    IF IsNil(respVersion) THEN Some([version |-> version]) ELSE respVersion
\* the version record after a successful UpdateAlias
TaggedVersion(respVersion, alias, version) ==
    IF IsNil(respVersion)
    THEN Some([alias |-> alias, version |-> version])
    ELSE Some([alias |-> alias, version |-> Val(respVersion).version])

\* mutant of AliasFailureResponse: the response built so far is dropped
AliasFailureResponseNil(resp) == None
\* the response returned with the error when UpdateAlias fails
AliasFailureResponse(resp) == Some(resp)

\* the answers of the environment to one run of the out handler
OutEnvs ==
    [read : ReadAnswers(VersionFileContents), codeOk : BOOLEAN,
     update : UpdateAnswers, fileOk : BOOLEAN, aliasOk : BOOLEAN]

\* the ioutil.ReadFile call codePayload makes for params.zip_file, with its
\* answer
CodeReads(params, ok) ==
    IF ~IsNil(params.ZipFile)
    THEN <<[path |-> Val(params.ZipFile), error |-> ~ok,
            data |-> IF ok THEN ZipFileBytes ELSE NoBytes]>>
    ELSE <<>>

\* the part of the handler that uploads code: [done, res, err, version, resp,
\* calls, files, log, reads]; done when the handler has returned in it
UploadCode(c, version, env, from, dir) ==
    LET code == codePayload(c.Params, env.codeOk, codeDir)
        call == [op |-> "UpdateFunctionCode", name |-> c.Source.FunctionName,
                 arg |-> Some(code.data)]
        published == Some(env.update.Version)
        stop(e, cs, lg) ==
            [done |-> TRUE, res |-> None, err |-> Some(Error(e)), version |-> version,
             resp |-> EmptyResponse, calls |-> cs, files |-> <<>>, log |-> lg,
             reads |-> CodeReads(c.Params, env.codeOk)]
    IN IF ~hasCodePayload(c.Params)
       THEN [done |-> FALSE, res |-> None, err |-> None, version |-> version,
             resp |-> EmptyResponse, calls |-> <<>>, files |-> <<>>, log |-> <<>>,
             reads |-> <<>>]
       ELSE IF code.failed
       THEN stop("failed to get code payload data", <<>>, <<>>)
       ELSE IF env.update.error
       THEN stop("failed to update function code", <<call>>, <<>>)
       ELSE IF ~env.fileOk
       THEN stop("failed to persist function configuration", <<call>>,
                 <<"successfully updated function">>)
       ELSE [done |-> FALSE, res |-> None, err |-> None, version |-> published,
             resp |-> Response(Some([version |-> env.update.Version]), NilSlice,
                               MakeSlice(UploadMetadata)),
             calls |-> <<call>>,
             files |-> <<FileEntry(from, dir, "version", env.update.Version)>>,
             log |-> <<"successfully updated function">>,
             reads |-> CodeReads(c.Params, env.codeOk)]

\* mutant of UploadReturned: the handler goes on after a failed upload
UploadReturnedNever(up) == FALSE
\* the handler has returned from within the upload part
UploadReturned(up) == up.done

\* OutCommand.HandleCommand: [res, err, calls, files, log, reads]
OutResult(c, env, from, dir) ==
    LET rv == ResolveVersion(c.Params, env.read)
        vr == VersionReads(c.Params, env.read)
        sanity == VersionSanityError(rv.version)
        up == UploadCode(c, rv.version, env, from, dir)
        call == [op |-> "UpdateAlias", name |-> c.Source.FunctionName,
                 arg |-> Some([version |-> Val(up.version), alias |-> Val(TagAlias(c))])]
    IN IF rv.failed
       THEN [res |-> None, err |-> Some(Error("failed to read version file")),
             calls |-> <<>>, files |-> <<>>, log |-> <<>>,
             reads |-> vr]
       ELSE IF ~IsNil(sanity)
       THEN [res |-> None, err |-> sanity, calls |-> <<>>, files |-> <<>>, log |-> <<>>,
             reads |-> vr]
       ELSE IF UploadReturned(up)
       THEN [res |-> up.res, err |-> up.err, calls |-> up.calls, files |-> up.files,
             log |-> up.log, reads |-> vr \o up.reads]
       ELSE IF ~TagsAlias(c, up.version)
       THEN [res |-> Some(up.resp), err |-> None, calls |-> up.calls,
             files |-> up.files, log |-> up.log,
             reads |-> vr \o up.reads]
       ELSE IF ~env.aliasOk
       THEN [res |-> AliasFailureResponse(up.resp),
             err |-> Some(Error("failed to set alias")),
             calls |-> Append(up.calls, call), files |-> up.files, log |-> up.log,
             reads |-> vr \o up.reads]
       ELSE [res |-> Some([up.resp EXCEPT !.Version =
                               TaggedVersion(up.resp.Version, Val(TagAlias(c)),
                                             Val(up.version))]),
             err |-> None, calls |-> Append(up.calls, call), files |-> up.files,
             log |-> Append(up.log, "successfully set the alias"),
             reads |-> vr \o up.reads]

OutHandleCommand ==
    /\ pc = "handler"
    /\ commandName = "out"
    /\ \E env \in OutEnvs :
         LET r == OutResult(Val(cmd), env, cwd, directory)
         IN /\ Return(r.res, r.err)
            /\ calls' = calls \o r.calls
            /\ files' = files \o r.files
            /\ log' = log \o r.log
            /\ reads' = reads \o r.reads
            /\ UNCHANGED invoked
    /\ UNCHANGED <<cmd, marker, newVersions, listed, answered, stdout, exit, cwd>>
    /\ UNCHANGED_ARGS

\* what stdin can decode to for the out command
PutParams(zip, dir, file, alias, version, versionFile) ==
    [ZeroParams EXCEPT !.ZipFile = zip, !.CodeDirectory = dir, !.CodeFile = file,
                       !.Alias = alias, !.Version = version,
                       !.VersionFile = versionFile]

CodeSources ==
    {<<None, None, None>>, <<Some("code.zip"), None, None>>,
     <<None, Some("code"), None>>, <<None, None, Some(<<"build", "index.js">>)>>,
     <<Some("code.zip"), Some("code"), Some(<<"build", "index.js">>)>>}

OutCommands ==
    {Command(Source(a), None, PutParams(cs[1], cs[2], cs[3], pa, v, vf)) :
        a \in SourceAliases,
        cs \in CodeSources,
        pa \in {None, Some("TEST")},
        v \in ParamVersions,
        vf \in {None, Some("upload/version")}}

----------------------------------------------------------------------------
\* CommandContext.Handle, the steps around the handler

\* what stdin can decode to for the selected command
Commands(name, r) ==
    CASE name = "check" -> CheckCommands(r)
      [] name = "in" -> InCommands(r)
      [] name = "out" -> OutCommands
      [] OTHER -> {Command(Source(None), None, ZeroParams)}

\* mutant of AfterDecode: a decoding failure ends the run
AfterDecodeFatal(ok) == IF ok THEN "chdir" ELSE "done"
\* where Handle continues after decoding: no return or exit follows the
\* log line of a failure
AfterDecode(ok) == "chdir"

\* Decode the input as the selected command; a failure is only logged and
\* leaves the handler with whatever was decoded
Decode ==
    /\ pc = "decode"
    /\ \E c \in Commands(commandName, rev) :
         /\ cmd' = Some(c)
         /\ \/ /\ UNCHANGED log
               /\ pc' = AfterDecode(TRUE)
            \/ /\ log' = Append(log, "failed to decode input json")
               /\ pc' = AfterDecode(FALSE)
    /\ UNCHANGED <<marker, newVersions, listed, res, err, stdout, exit, calls,
                   files, reads, invoked, answered, cwd>>
    /\ UNCHANGED_ARGS

\* mutant of Encoded: check is not special-cased
EncodedWhole(name, r) == IF IsNil(r) THEN JNull ELSE JObject(Val(r))
\* the document json.Encoder writes for the response
Encoded(name, r) ==
    IF name = "check"
    THEN IF Val(r).Versions.isNil THEN JNull ELSE JArray(Val(r).Versions.elems)
    ELSE IF IsNil(r) THEN JNull ELSE JObject(Val(r))

\* res.Versions dereferences a nil response
EncodePanics(name, r) == name = "check" /\ IsNil(r)

\* mutant of HandlerFailed: the handler's error is not looked at
HandlerFailedNever(e) == FALSE
\* if err != nil after HandleCommand
HandlerFailed(e) == ~IsNil(e)

\* the handler has returned: a handler error is fatal, else the response is
\* encoded to stdout and Handle returns to main
Respond ==
    /\ pc = "returned"
    /\ IF HandlerFailed(err)
       THEN /\ log' = Append(log, "failed to run command")
            /\ Terminate(1)
            /\ UNCHANGED stdout
       ELSE IF EncodePanics(commandName, res)
       THEN /\ Terminate(2)
            /\ UNCHANGED <<stdout, log>>
       ELSE \E written \in {"all", "part", "nothing"} :
              IF written = "all"
              THEN /\ stdout' = Append(stdout, Encoded(commandName, res))
                   /\ Terminate(0)
                   /\ UNCHANGED log
              ELSE /\ stdout' = IF written = "part"
                                THEN Append(stdout, JRaw("truncated"))
                                ELSE stdout
                   /\ log' = Append(log, "failed to encode response")
                   /\ Terminate(1)
    /\ UNCHANGED <<cmd, marker, newVersions, listed, res, err, calls, files,
                   reads, invoked, answered, cwd>>
    /\ UNCHANGED_ARGS

----------------------------------------------------------------------------

Next ==
    \/ Dispatch
    \/ Decode
    \/ Chdir
    \/ CheckListVersions
    \/ CheckAlias
    \/ CheckListVersionsRev2
    \/ CheckAliasRev2
    \/ InHandleCommand
    \/ InHandleCommandRev2
    \/ InHandleCommandRev3
    \/ OutHandleCommand
    \/ Respond

Spec == Init /\ [][Next]_vars

----------------------------------------------------------------------------
\* Vocabulary of the properties

IsCheckRun == commandName = "check" /\ ~IsNil(cmd)
IsInRun == commandName = "in" /\ ~IsNil(cmd)
IsOutRun == commandName = "out" /\ ~IsNil(cmd)
Unaliased == IsNil(Val(cmd).Source.Alias)
HandlerEnded == pc \in {"returned", "done"}
HandlerReturnedOk == HandlerEnded /\ IsNil(err) /\ ~IsNil(res)

\* the published numeric versions among the answers of the API
NumericListed == {v \in Range(listed) : v # LATEST /\ Atoi(v).ok}

\* the numeric version of the baseline given to check, if it has one
BaselineVersion ==
    LET b == Val(cmd).Version
    IN IF IsNil(b) THEN None
       ELSE IF rev = 2 THEN Some(Val(b).Version)
       ELSE IF "version" \in DOMAIN Val(b) /\ Atoi(Val(b).version).ok
            THEN Some(Atoi(Val(b).version).val)
            ELSE None

\* the version list the check handler returned, and its numeric values
Emitted == Val(res).Versions.elems
EmittedNumbers ==
    [i \in 1..Len(Emitted) |->
        IF rev = 2 THEN Emitted[i].Version ELSE Atoi(Emitted[i].version).val]

Ascending(s) == \A i \in 1..(Len(s) - 1) : s[i] < s[i + 1]
Maximum(S) == CHOOSE m \in S : \A n \in S : n <= m

----------------------------------------------------------------------------
\* C1: an unaliased check with a baseline that has a numeric version B
\* returns exactly the listed published versions greater than B, each once,
\* in ascending numeric order (9 before 10), over any number of pages.
C1_NewerVersionsAscending ==
    (IsCheckRun /\ Unaliased /\ HandlerReturnedOk /\ ~IsNil(BaselineVersion)) =>
        LET want == {Atoi(v).val :
                        v \in {w \in NumericListed : Atoi(w).val > Val(BaselineVersion)}}
        IN /\ Range(EmittedNumbers) = want
           /\ Len(Emitted) = Cardinality(want)
           /\ Ascending(EmittedNumbers)
           /\ rev = 1 => \A i \in 1..Len(Emitted) :
                            \E v \in Range(listed) : Emitted[i] = [version |-> v]

\* 10 is listed on the first page, 9 later; the check with baseline 2 ends
\* with 9 before 10
C1_Witness ==
    /\ IsCheckRun /\ Unaliased /\ rev = 1
    /\ pc = "done" /\ exit = Some(0)
    /\ Val(cmd).Version = Some([version |-> <<"2">>])
    /\ Len(calls) = 2
    /\ Len(listed) >= 1 /\ listed[1] = <<"1", "0">>
    /\ Emitted = <<[version |-> <<"9">>], [version |-> <<"1", "0">>]>>

\* C2: an unaliased check without a baseline, when at least one published
\* numeric version is listed, returns exactly one version, the greatest.
C2_FirstCheckNewestOnly ==
    (IsCheckRun /\ Unaliased /\ HandlerEnded /\ IsNil(err)
        /\ IsNil(Val(cmd).Version) /\ NumericListed # {}) =>
        /\ ~IsNil(res)
        /\ EmittedNumbers = <<Maximum({Atoi(v).val : v \in NumericListed})>>

\* 10 is listed before 9 and 2; the first check writes the single version 10
C2_Witness ==
    /\ IsCheckRun /\ Unaliased /\ IsNil(Val(cmd).Version)
    /\ pc = "done" /\ exit = Some(0)
    /\ Len(listed) >= 3
    /\ listed[1] = <<"1", "0">> /\ listed[2] = <<"9">>
    /\ stdout[1].type = "array" /\ Len(stdout[1].elems) = 1

\* C3: an unaliased check without a baseline, when no published numeric
\* version is listed, completes and returns the empty list; it does not
\* crash.
C3_EmptyFirstCheckSucceeds ==
    (IsCheckRun /\ Unaliased /\ pc = "done" /\ IsNil(err)
        /\ IsNil(Val(cmd).Version) /\ NumericListed = {}) =>
        /\ ~IsNil(res)
        /\ Len(Emitted) = 0
        /\ exit # Some(2)

\* C4: an aliased check whose configuration call succeeded returns no record
\* when the alias's version equals the baseline's version and exactly one
\* record in every other case (no baseline, or a lower or higher version).
C4_AliasedCheckCount ==
    (IsCheckRun /\ ~Unaliased /\ HandlerReturnedOk) =>
        Len(Emitted) = IF ~IsNil(BaselineVersion)
                          /\ Val(BaselineVersion) = Atoi(listed[1]).val
                       THEN 0 ELSE 1

\* the Invoke call was made and answered without error or function error,
\* and result.json and result.payload.json were both written
InvokedAndPersisted ==
    /\ Len(calls) = 1 /\ calls[1].op = "Invoke"
    /\ Len(files) = 2
    /\ files[1].path.segs[Len(files[1].path.segs)] = "result.json"
    /\ files[2].path.segs[Len(files[2].path.segs)] = "result.payload.json"

HasTimestamp(version) == ~IsNil(version) /\ "timestamp" \in DOMAIN Val(version)

\* C5: when get invoked the function and the invoke call and both artifact
\* writes succeeded, the handler returns no error and a non-nil response
\* whose version holds a timestamp, and a run that exits 0 has written that
\* object to stdout.
C5_InvokedGetReturnsTimestamp ==
    (IsInRun /\ HandlerEnded /\ InvokedAndPersisted) =>
        /\ IsNil(err)
        /\ ~IsNil(res)
        /\ HasTimestamp(Val(res).Version)
        /\ exit = Some(0) =>
              /\ Len(stdout) = 1
              /\ stdout[1].type = "object"
              /\ HasTimestamp(stdout[1].version)

NoPayloadGiven == IsNil(Val(cmd).Params.Payload) /\ IsNil(Val(cmd).Params.PayloadFile)
NoCall(op) == \A i \in 1..Len(calls) : calls[i].op # op

\* C6: a get with neither payload nor payload_file never calls Invoke.
C6_NoPayloadNoInvoke ==
    (IsInRun /\ NoPayloadGiven) => NoCall("Invoke")

\* a get without payload has run its handler to the end
C6_Witness ==
    /\ IsInRun /\ NoPayloadGiven
    /\ rev = 1 /\ pc = "done" /\ ~IsNil(err)

\* the version string put resolved: the trimmed content of the version file
\* when one is named and was read, else params.version
PutVersionString ==
    LET params == Val(cmd).Params
    IN IF ~IsNil(params.VersionFile)
       THEN IF Len(reads) >= 1 /\ ~reads[1].error
            THEN Some(TrimRight(reads[1].data, {"\n", "\r"}))
            ELSE None
       ELSE params.Version

NotAnInteger(v) == Len(v) = 0 \/ ~Atoi(v).ok

\* C7: a put whose resolved version string is empty or not an integer fails
\* with a handler error before any external API call, also when a code
\* source and an alias are given.
C7_InvalidVersionFailsBeforeApi ==
    (IsOutRun /\ HandlerEnded /\ ~IsNil(PutVersionString)
        /\ NotAnInteger(Val(PutVersionString))) =>
        /\ ~IsNil(err)
        /\ IsNil(res)
        /\ Len(calls) = 0

\* version "abc" with a zip file and an alias: the run has failed
C7_Witness ==
    /\ IsOutRun /\ pc = "done" /\ exit = Some(1)
    /\ Val(cmd).Params.Version = Some(<<"a", "b", "c">>)
    /\ IsNil(Val(cmd).Params.VersionFile)
    /\ ~IsNil(Val(cmd).Params.ZipFile)
    /\ ~IsNil(Val(cmd).Params.Alias)

NoCodeSource ==
    LET params == Val(cmd).Params
    IN IsNil(params.ZipFile) /\ IsNil(params.CodeDirectory) /\ IsNil(params.CodeFile)

\* d is k digits followed only by newline and carriage-return characters
DigitsThenNewlines(d, k) ==
    /\ \A i \in 1..k : d[i] \in Digits
    /\ \A i \in (k + 1)..Len(d) : d[i] \in {"\n", "\r"}

\* C8: a put with no code source, an alias and a version file holding an
\* integer followed by newline/carriage-return characters makes exactly one
\* external call, UpdateAlias to the integer without the trailing
\* characters, and no UpdateFunctionCode call.
C8_VersionFileTagsTrimmedVersion ==
    (IsOutRun /\ HandlerEnded /\ NoCodeSource
        /\ ~IsNil(Val(cmd).Params.Alias) /\ ~IsNil(Val(cmd).Params.VersionFile)
        /\ Len(reads) = 1 /\ ~reads[1].error) =>
        \A k \in 1..Len(reads[1].data) :
            DigitsThenNewlines(reads[1].data, k) =>
                /\ Len(calls) = 1
                /\ calls[1].op = "UpdateAlias"
                /\ calls[1].arg = Some([version |-> SubSeq(reads[1].data, 1, k),
                                        alias |-> Val(Val(cmd).Params.Alias)])

\* the version file holds "42\r\n" and the alias was set to version 42
C8_Witness ==
    /\ IsOutRun /\ pc = "done" /\ exit = Some(0) /\ NoCodeSource
    /\ Len(reads) = 1 /\ reads[1].data = <<"4", "2", "\r", "\n">>
    /\ Len(calls) = 1 /\ calls[1].op = "UpdateAlias"
    /\ Val(calls[1].arg).version = <<"4", "2">>

\* C9: when the base name of argument 0 is none of check, in, out, the
\* process exits with status 1 having written nothing to stdout, decoded
\* nothing and invoked no handler.
C9_UnknownCommandExits ==
    (commandName \notin {"check", "in", "out"}) =>
        /\ pc \in {"start", "done"}
        /\ pc = "done" => exit = Some(1)
        /\ Len(stdout) = 0
        /\ IsNil(cmd) /\ IsNil(res) /\ IsNil(err)
        /\ Len(calls) = 0 /\ Len(files) = 0

C9_Witness ==
    /\ commandName = "lambda-resource-linux-amd64"
    /\ pc = "done" /\ exit = Some(1)
    /\ log = <<"unknown command">>

\* C10: whenever the handler returned an error, nothing is written to stdout
\* and the process exits with status 1, also when the handler returned a
\* partial response with the error.
C10_HandlerErrorIsFatal ==
    ~IsNil(err) =>
        /\ Len(stdout) = 0
        /\ pc = "done" => exit = Some(1)

\* the alias update failed after a successful upload: the error came with a
\* response and the run has exited
C10_Witness ==
    /\ IsOutRun /\ pc = "done" /\ exit = Some(1)
    /\ ~IsNil(err) /\ ~IsNil(res)
    /\ Len(calls) = 2 /\ calls[2].op = "UpdateAlias"

----------------------------------------------------------------------------
\* C11: when Handle is given a nil handler set for one of the three known
\* commands, the run ends normally (status 0) having written the empty
\* document of the protocol ({} for in and out, [] for check) to stdout and
\* a diagnostic to the log, and no handler has run.
C11_NilHandlerEmptyResponse ==
    (handlerNil /\ KnownCommand(commandName) /\ pc = "done") =>
        /\ exit = Some(0)
        /\ stdout = <<JRaw(IF commandName = "check" THEN "[]" ELSE "{}")>>
        /\ log # <<>>
        /\ IsNil(cmd) /\ calls = <<>> /\ files = <<>>

----------------------------------------------------------------------------
\* Handle with an arbitrary CommandHandler: the concourse package runs
\* whatever handler the ResourceHandler supplies, and the handler may
\* return any response and any error.

SomeResourceVersion == [version |-> <<"2">>]

\* the (*CommandResponse, error) pairs a handler may return
AnyResponses ==
    {None} \cup
    {Some(Response(v, vs, m)) :
        v \in {None, Some(SomeResourceVersion)},
        vs \in {NilSlice, MakeSlice(<<>>), MakeSlice(<<SomeResourceVersion>>)},
        m \in {NilSlice, MakeSlice(UploadMetadata)}}
AnyErrors == {None, Some(Error("handler failed"))}

\* res, err := cmdHandler.HandleCommand(ctx)
AnyHandleCommand ==
    /\ pc = "handler"
    /\ \E r \in AnyResponses, e \in AnyErrors : Return(r, e)
    /\ UNCHANGED <<cmd, marker, newVersions, listed, stdout, log, exit, calls,
                   files, reads, invoked, answered, cwd>>
    /\ UNCHANGED_ARGS

HandleNext ==
    \/ Dispatch
    \/ Decode
    \/ Chdir
    \/ AnyHandleCommand
    \/ Respond

HandleSpec == Init /\ [][HandleNext]_vars

\* Handle has returned to main after encoding the response
ResponseWritten == pc = "done" /\ exit = Some(0)

----------------------------------------------------------------------------
\* C12: for check the document on stdout is the encoding of the response's
\* version sequence alone (an array of its elements; Go writes null for a
\* nil sequence) and shows neither the version field nor the metadata of
\* the response; for in and out the document is the whole response object
\* with its version and metadata, and the version sequence is not in it.
C12_CheckWritesOnlyVersions ==
    ResponseWritten =>
        /\ Len(stdout) = 1
        /\ IF commandName = "check"
           THEN /\ stdout[1].type = IF Val(res).Versions.isNil THEN "null" ELSE "array"
                /\ stdout[1].elems = Val(res).Versions.elems
                /\ IsNil(stdout[1].version)
                /\ stdout[1].metadata = NilSlice
           ELSE IF IsNil(res)
           THEN stdout[1] = JNull
           ELSE /\ stdout[1].type = "object"
                /\ stdout[1].version = Val(res).Version
                /\ stdout[1].metadata = Val(res).Metadata
                /\ stdout[1].elems = <<>>

\* a check whose response carries a version, metadata and a version
\* sequence has written the array of the sequence
C12_Witness ==
    /\ ResponseWritten
    /\ commandName = "check"
    /\ ~IsNil(Val(res).Version)
    /\ Val(res).Metadata = MakeSlice(UploadMetadata)
    /\ stdout = <<JArray(<<SomeResourceVersion>>)>>

----------------------------------------------------------------------------
\* C13: check never returns or writes a version record for "$LATEST",
\* whichever pages the API lists it on and whatever the baseline is: every
\* record stems from a listed identifier other than "$LATEST".
C13_NeverEmitsLatest ==
    (IsCheckRun /\ HandlerEnded /\ ~IsNil(res)) =>
        /\ \A i \in 1..Len(Emitted) :
             IF rev = 2
             THEN \E v \in NumericListed : Atoi(v).val = Emitted[i].Version
             ELSE Emitted[i].version \in NumericListed
        /\ \A d \in 1..Len(stdout) : \A i \in 1..Len(stdout[d].elems) :
             rev = 1 => stdout[d].elems[i].version # LATEST

\* an unaliased check that was served "$LATEST" on its second page has
\* written a non-empty version list
C13_Witness ==
    /\ IsCheckRun /\ Unaliased
    /\ ResponseWritten
    /\ Len(calls) = 2
    /\ Len(listed) >= 2 /\ listed[Len(listed)] = LATEST
    /\ Len(stdout) = 1 /\ stdout[1].elems # <<>>

----------------------------------------------------------------------------
\* the Invoke call was answered without a transport error, and the answer
\* flags a function error
FunctionErrorFlagged ==
    /\ ~IsNil(invoked)
    /\ ~Val(invoked).error
    /\ ~IsNil(Val(invoked).out.FunctionError)

\* C14: when Invoke succeeds but flags a function error, get returns no
\* response and an error that is not the wrapped transport error; when the
\* returned payload decodes, the error is the FunctionError holding the
\* decoded message, kind and stack trace.  No result file is written,
\* nothing goes to stdout and the process exits with status 1.
C14_FunctionErrorIsTyped ==
    (IsInRun /\ HandlerEnded /\ FunctionErrorFlagged) =>
        LET decoded == UnmarshalFunctionError(Val(invoked).out.Payload)
        IN /\ IsNil(res) /\ ~IsNil(err)
           /\ Val(err) # Error("failed to invoke function")
           /\ decoded.ok =>
                /\ Val(err).type = "FunctionError"
                /\ Val(err).fe = Some(decoded.fe)
                /\ Val(err).msg = decoded.fe.Message
           /\ files = <<>>
           /\ stdout = <<>>
           /\ pc = "done" => exit = Some(1)

\* a get whose invocation flagged a handled error with a decodable payload
\* has exited with status 1
C14_Witness ==
    /\ IsInRun /\ FunctionErrorFlagged
    /\ Val(invoked).out.Payload = ErrorPayload
    /\ Val(err).type = "FunctionError"
    /\ Val(err).fe = Some([Message |-> "boom", Type |-> "Handled", StackTrace |-> <<"at f">>])
    /\ pc = "done" /\ exit = Some(1)

----------------------------------------------------------------------------
\* Packing a code directory: the out handler run on any tree the bounds
\* allow, started where Handle calls it with a decoded command that names
\* code_dir, no zip_file and no version

ZipCommands ==
    {c \in OutCommands :
        /\ IsNil(c.Params.ZipFile) /\ ~IsNil(c.Params.CodeDirectory)
        /\ IsNil(c.Params.Version) /\ IsNil(c.Params.VersionFile)}

ZipInit ==
    /\ args0 = <<"out">>
    /\ directory = NoDirectory
    /\ handlerNil = FALSE
    /\ commandName = Base(args0)
    /\ rev = 1
    /\ pc = "handler"
    /\ cmd \in {Some(c) : c \in ZipCommands}
    /\ codeDir \in CodeTrees
    /\ marker = None
    /\ newVersions = NilSlice
    /\ listed = <<>>
    /\ res = None
    /\ err = None
    /\ stdout = <<>>
    /\ log = <<>>
    /\ exit = None
    /\ calls = <<>>
    /\ files = <<>>
    /\ reads = <<>>
    /\ invoked = None
    /\ answered = <<>>
    /\ cwd = NoDirectory

ZipNext ==
    \/ OutHandleCommand
    \/ Respond

ZipSpec == ZipInit /\ [][ZipNext]_vars

RECURSIVE FilesUnder(_)
\* the non-directory files below a directory listing, each with the names
\* on its path and its content
FilesUnder(listing) ==
    UNION {IF listing[i].IsDir
           THEN {[path |-> <<listing[i].Name>> \o f.path, data |-> f.data] :
                    f \in FilesUnder(listing[i].files)}
           ELSE {[path |-> <<listing[i].Name>>, data |-> listing[i].data]} :
           i \in 1..Len(listing)}

RECURSIVE JoinSlash(_)
\* the names of a path, separated by slashes
JoinSlash(p) == IF Len(p) = 1 THEN p[1] ELSE p[1] \o "/" \o JoinSlash(Tail(p))

\* the handler uploaded an archive packed from the code directory
UploadedCodeDir ==
    /\ IsOutRun /\ HandlerEnded
    /\ IsNil(Val(cmd).Params.ZipFile) /\ ~IsNil(Val(cmd).Params.CodeDirectory)
    /\ Len(calls) >= 1 /\ calls[1].op = "UpdateFunctionCode"

\* C15: the archive packed from a directory tree and handed to
\* UpdateFunctionCode holds one entry for each non-directory file of the
\* tree, named by the file's path relative to the directory with slashes
\* between the names and holding the file's content, and no other entry.
C15_ArchiveHoldsExactlyTheFiles ==
    UploadedCodeDir =>
        LET entries == Val(calls[1].arg).entries
            onDisk == FilesUnder(codeDir.files)
        IN /\ codeDir.IsDir
           /\ Range(entries) =
                {[name |-> JoinSlash(f.path), data |-> f.data] : f \in onDisk}
           /\ Len(entries) = Cardinality(onDisk)

\* the tree {a.txt, sub/b.txt} was packed into the entries a.txt and
\* sub/b.txt
C15_Witness ==
    /\ UploadedCodeDir
    /\ codeDir = ExampleTree
    /\ Val(calls[1].arg).entries =
           <<[name |-> "a.txt", data |-> "x"], [name |-> "sub/b.txt", data |-> "z"]>>

----------------------------------------------------------------------------
\* the handler has returned after a successful code upload
UploadedCode ==
    /\ IsOutRun /\ HandlerEnded
    /\ Len(calls) >= 1 /\ calls[1].op = "UpdateFunctionCode"
    /\ ~IsNil(res)

\* C16: a put that uploads code without params.alias, for a source that
\* configures an alias, sets the source's alias to the version just
\* published.
C16_AliasDefaultsToSource ==
    (UploadedCode /\ IsNil(err)
        /\ IsNil(Val(cmd).Params.Alias) /\ ~IsNil(Val(cmd).Source.Alias)) =>
        \E i \in 1..Len(calls) :
            /\ calls[i].op = "UpdateAlias"
            /\ calls[i].arg = Some([version |-> Val(Val(res).Version).version,
                                    alias |-> Val(Val(cmd).Source.Alias)])

----------------------------------------------------------------------------
\* the version the resolution order "explicit version param, else trimmed
\* version file, else none" yields
ExplicitFirstVersion ==
    LET params == Val(cmd).Params
    IN IF ~IsNil(params.Version) THEN params.Version
       ELSE IF ~IsNil(params.VersionFile) /\ Len(reads) >= 1 /\ ~reads[1].error
       THEN Some(TrimRight(reads[1].data, VersionCutset))
       ELSE None

\* C17: put validates and uses the explicit version param if it is given,
\* else the trimmed content of the version file, else no version: an
\* invalid one fails the put before any API call, and without a code source
\* the alias is set to that version; also when both version and
\* version_file are given.
C17_ExplicitVersionWins ==
    (IsOutRun /\ HandlerEnded /\ \A i \in 1..Len(reads) : ~reads[i].error) =>
        IF IsNil(ExplicitFirstVersion)
        THEN \A i \in 1..Len(calls) : calls[i].op # "UpdateAlias" \/ ~NoCodeSource
        ELSE IF NotAnInteger(Val(ExplicitFirstVersion))
        THEN ~IsNil(err) /\ calls = <<>>
        ELSE (NoCodeSource /\ ~IsNil(Val(cmd).Params.Alias)) =>
                /\ Len(calls) = 1
                /\ calls[1].op = "UpdateAlias"
                /\ calls[1].arg = Some([version |-> Val(ExplicitFirstVersion),
                                        alias |-> Val(Val(cmd).Params.Alias)])

----------------------------------------------------------------------------
\* the code was uploaded and the UpdateAlias call that followed failed
AliasFailedAfterUpload ==
    /\ IsOutRun /\ HandlerEnded
    /\ Len(calls) = 2
    /\ calls[1].op = "UpdateFunctionCode" /\ calls[2].op = "UpdateAlias"
    /\ ~IsNil(err)

\* C18: when UpdateAlias fails after a successful code upload, the handler
\* returns the error together with a non-nil response that holds the record
\* of the newly published version and the metadata of the upload (arn,
\* runtime, timeout, memory).
C18_AliasFailureKeepsResponse ==
    AliasFailedAfterUpload =>
        /\ Val(err) = Error("failed to set alias")
        /\ ~IsNil(res)
        /\ Val(res).Version = Some([version |-> Val(calls[2].arg).version])
        /\ Val(calls[2].arg).version \in NewVersions
        /\ Val(res).Metadata = MakeSlice(UploadMetadata)
        /\ [i \in 1..4 |-> UploadMetadata[i].Name] = <<"arn", "runtime", "timeout", "memory">>

\* a put of a zip file with alias TEST whose alias update failed
C18_Witness ==
    /\ AliasFailedAfterUpload
    /\ pc = "returned"
    /\ Val(cmd).Params.Alias = Some("TEST")
    /\ ~IsNil(res)
    /\ Val(res).Version = Some([version |-> <<"1", "1">>])

----------------------------------------------------------------------------
\* the code upload of this run succeeded, its version file included
UploadSucceeded ==
    /\ Len(calls) >= 1 /\ calls[1].op = "UpdateFunctionCode"
    /\ Len(files) >= 1

\* the handler got as far as the tagging step: it returned without error,
\* or from the UpdateAlias call
ReachedTagging ==
    /\ IsOutRun /\ HandlerEnded
    /\ IsNil(err) \/ (Len(calls) >= 1 /\ calls[Len(calls)].op = "UpdateAlias")

\* the version the tagging step has at hand: the one just published when
\* code was uploaded, else the one resolved from the parameters
VersionAtHand ==
    IF UploadSucceeded THEN Some(files[1].data) ELSE PutVersionString

\* C19: put calls UpdateAlias if and only if params.alias is present and a
\* version is at hand; the call names the alias and the version just
\* published when code was uploaded in this run, whatever version or
\* version_file say, and else the version resolved from them; when the
\* call succeeds the returned version record holds that version and the
\* alias.
C19_TagsIffAliasAndVersion ==
    ReachedTagging =>
        LET alias == Val(cmd).Params.Alias
            tagged == \E i \in 1..Len(calls) : calls[i].op = "UpdateAlias"
        IN /\ tagged <=> (~IsNil(alias) /\ ~IsNil(VersionAtHand))
           /\ tagged =>
                /\ calls[Len(calls)].arg =
                       Some([version |-> Val(VersionAtHand), alias |-> Val(alias)])
                /\ Cardinality({i \in 1..Len(calls) : calls[i].op = "UpdateAlias"}) = 1
                /\ IsNil(err) =>
                       /\ ~IsNil(res)
                       /\ Val(res).Version =
                              Some([version |-> Val(VersionAtHand), alias |-> Val(alias)])

\* code was uploaded with an explicit version 7 and alias TEST: the alias
\* was set to the published version 11
C19_Witness ==
    /\ ReachedTagging /\ IsNil(err) /\ UploadSucceeded
    /\ Val(cmd).Params.Version = Some(<<"7">>)
    /\ Val(cmd).Params.Alias = Some("TEST")
    /\ calls[2].arg = Some([version |-> <<"1", "1">>, alias |-> "TEST"])
    /\ Val(res).Version = Some([version |-> <<"1", "1">>, alias |-> "TEST"])

----------------------------------------------------------------------------
\* C20: when put returns successfully after a code upload, it has written
\* the version string alone to the file "version" and the function
\* configuration answered by UpdateFunctionCode to a second file.
C20_UploadPersistsConfigAndVersion ==
    (UploadedCode /\ IsNil(err)) =>
        /\ \E i \in 1..Len(files) :
              /\ Base(files[i].path.segs) = "version"
              /\ files[i].data \in NewVersions
        /\ \E i \in 1..Len(files) : Base(files[i].path.segs) # "version"

----------------------------------------------------------------------------
\* the positions of the calls of one operation in the run's call history
CallsOf(op) == {i \in 1..Len(calls) : calls[i].op = op}

\* C21: one put run makes at most one UpdateFunctionCode call and at most
\* one UpdateAlias call, never UpdateAlias before UpdateFunctionCode, and
\* no UpdateAlias call at all when a code source was given and reading or
\* packing it, UpdateFunctionCode or the write of the version file failed.
C21_PutCallsOrderedAndBounded ==
    IsOutRun =>
        /\ Cardinality(CallsOf("UpdateFunctionCode")) <= 1
        /\ Cardinality(CallsOf("UpdateAlias")) <= 1
        /\ \A i \in CallsOf("UpdateAlias"), j \in CallsOf("UpdateFunctionCode") : j < i
        /\ \A i \in 1..Len(calls) : calls[i].op \in {"UpdateFunctionCode", "UpdateAlias"}
        /\ (HandlerEnded /\ hasCodePayload(Val(cmd).Params) /\ ~UploadSucceeded) =>
               /\ CallsOf("UpdateAlias") = {}
               /\ ~IsNil(err) /\ IsNil(res)

\* a put with a code source, a version and an alias whose version file
\* could not be written after the upload: the run ended with that one call
C21_Witness ==
    /\ IsOutRun /\ HandlerEnded
    /\ hasCodePayload(Val(cmd).Params)
    /\ ~IsNil(Val(cmd).Params.Alias)
    /\ Val(cmd).Params.Version = Some(<<"7">>)
    /\ Len(calls) = 1 /\ calls[1].op = "UpdateFunctionCode"
    /\ files = <<>>
    /\ err = Some(Error("failed to persist function configuration"))

----------------------------------------------------------------------------
\* C22: for a known command and a present handler set, every step of the
\* run keeps to the order decode, change directory, handler: decoding goes
\* on to the directory change and the directory change to the handler
\* whether or not they failed, a failure adds a log line and ends nothing,
\* the working directory changes only in the step between decoding and the
\* handler and only when argument 1 is given, and the handler is entered
\* from that step alone and never again once it has returned.
C22_HandlerRunsOnceAfterDecodeAndChdir ==
    [][/\ (pc = "start" /\ KnownCommand(commandName) /\ ~handlerNil) => pc' = "decode"
       /\ pc = "decode" => (pc' = "chdir" /\ exit' = None /\ cwd' = cwd)
       /\ pc = "chdir" => (pc' = "handler" /\ exit' = None /\ calls' = calls)
       /\ pc' = "decode" => pc = "start"
       /\ pc' = "chdir" => pc = "decode"
       /\ pc' = "handler" => pc = "chdir"
       /\ pc \in {"handler", "listing"} => pc' \in {"listing", "returned", "done"}
       /\ pc = "returned" => pc' = "done"
       /\ cwd' # cwd => (pc = "chdir" /\ directory # NoDirectory)
       /\ (calls' # calls \/ files' # files) => pc \in {"handler", "listing"}]_vars

\* a get whose input did not decode and whose directory change failed has
\* run its handler, which called the API
C22_Witness ==
    /\ IsInRun /\ HandlerEnded
    /\ directory # NoDirectory
    /\ Len(log) >= 2
    /\ log[1] = "failed to decode input json"
    /\ log[2] = "failed to change directory"
    /\ cwd = NoDirectory
    /\ Len(calls) = 1

----------------------------------------------------------------------------
\* the API has answered an identifier that check has to parse and that is
\* no integer
NonIntegerListed == \E i \in 1..Len(listed) : listed[i] # LATEST /\ ~Atoi(listed[i]).ok

\* the check has failed with a handler error and has emitted nothing
CheckFailed == ~IsNil(err) /\ IsNil(res) /\ stdout = <<>>

\* C23 as claimed: a check that was answered a non-integer version
\* identifier, listed or the alias's, and did not panic fails with a
\* handler error and emits no versions.
C23_ParseFailureIsFatal ==
    (IsCheckRun /\ HandlerEnded /\ NonIntegerListed /\ exit # Some(2)) => CheckFailed

\* C23: a check that was answered a non-integer version identifier fails
\* with a handler error and emits nothing in aliased mode and, for the
\* first revision of the handler, in unaliased mode; the second revision
\* skips such an identifier in unaliased mode: it raises no parse error and
\* every record it returns stems from a listed integer.
C23_ParseFailureFatalOrSkipped ==
    (IsCheckRun /\ HandlerEnded /\ NonIntegerListed) =>
        IF rev = 1 \/ ~Unaliased
        THEN /\ CheckFailed
             /\ Val(err) = Error(IF rev = 2 THEN "could not parse function version"
                                 ELSE "failed to parse function version")
        ELSE /\ ~IsNil(err) => Val(err) = Error("failed to list versions")
             /\ ~IsNil(res) =>
                    \A i \in 1..Len(Emitted) :
                        \E v \in NumericListed : Atoi(v).val = Emitted[i].Version

\* the first revision was listed "x" on its second page and has exited
\* with status 1 without output
C23_Witness ==
    /\ IsCheckRun /\ Unaliased /\ rev = 1
    /\ Len(calls) = 2
    /\ Len(listed) >= 1 /\ listed[Len(listed)] = <<"x">>
    /\ CheckFailed
    /\ pc = "done" /\ exit = Some(1)

----------------------------------------------------------------------------
\* the listed integer versions the baseline lets through
Considered ==
    {v \in NumericListed :
        IsNil(BaselineVersion) \/ Atoi(v).val > Val(BaselineVersion)}

\* C24: an unaliased check asks for the first page without a marker and
\* for every further page with the marker the page before it carried; a
\* page without a marker, or an API error, is the last one asked for and
\* ends the loop in the step that receives it; an API error on any page
\* fails the check with no versions emitted; and a check that returns for
\* a baseline has taken the versions of every page into account.
C24_FollowsMarkersUntilExhausted ==
    (IsCheckRun /\ Unaliased) =>
        /\ Len(answered) = Len(calls)
        /\ \A i \in 1..Len(calls) :
              /\ calls[i].op = "ListVersionsByFunction"
              /\ calls[i].arg = IF i = 1 THEN None ELSE answered[i - 1].NextMarker
              /\ i > 1 => (~answered[i - 1].error /\ ~IsNil(answered[i - 1].NextMarker))
        /\ pc = "listing" =>
              (~answered[Len(answered)].error /\ ~IsNil(answered[Len(answered)].NextMarker))
        /\ (Len(answered) >= 1 /\ answered[Len(answered)].error) =>
              (HandlerEnded /\ CheckFailed /\ Val(err) = Error("failed to list versions"))
        /\ (Len(answered) >= 1 /\ IsNil(answered[Len(answered)].NextMarker)) => HandlerEnded
        /\ (HandlerReturnedOk /\ ~IsNil(Val(cmd).Version)) =>
              {EmittedNumbers[i] : i \in 1..Len(Emitted)} =
                  {Atoi(v).val : v \in Considered}

\* a check with baseline 2 was served a first page with marker m1, asked
\* for the second page with m1 and returned versions of both pages
C24_Witness ==
    /\ IsCheckRun /\ Unaliased /\ HandlerReturnedOk
    /\ BaselineVersion = Some(2)
    /\ Len(calls) = 2
    /\ answered[1].NextMarker = Some("m1") /\ calls[2].arg = Some("m1")
    /\ IsNil(answered[2].NextMarker)
    /\ Len(listed) = 2
    /\ Len(Emitted) = 2

----------------------------------------------------------------------------
\* the name get is to invoke the function under
ExpectedInvokeName ==
    LET c == Val(cmd)
    IN IF ~IsNil(c.Params.Alias) THEN "Dummy:" \o Val(c.Params.Alias)
       ELSE IF ~IsNil(c.Source.Alias) THEN "Dummy:" \o Val(c.Source.Alias)
       ELSE "Dummy"

\* C25: every Invoke call of a get names the function function_name when
\* neither params.alias nor the source's alias is given, function_name:alias
\* with params.alias when that is given, and with the source's alias
\* otherwise.
C25_InvokesQualifiedName ==
    IsInRun =>
        /\ Val(cmd).Source.FunctionName = "Dummy"
        /\ \A i \in 1..Len(calls) :
              /\ calls[i].op = "Invoke"
              /\ calls[i].name = ExpectedInvokeName

\* params.alias TEST overrides the source's alias PROD
C25_Witness ==
    /\ IsInRun /\ HandlerEnded
    /\ Val(cmd).Source.Alias = Some("PROD")
    /\ Val(cmd).Params.Alias = Some("TEST")
    /\ Len(calls) = 1 /\ calls[1].name = "Dummy:TEST"

----------------------------------------------------------------------------
\* the response of the run carries a timestamp version generated in the run
FreshTimestampReturned ==
    /\ ~IsNil(res)
    /\ HasTimestamp(Val(res).Version)
    /\ Val(Val(res).Version).timestamp \in Timestamps

\* C26: the response of a get carries a freshly generated timestamp version
\* only if the run has called the Invoke API; a payload file that is
\* present but empty, for which the call is skipped, yields none.
C26_TimestampOnlyIfInvoked ==
    (IsInRun /\ HandlerEnded /\ FreshTimestampReturned) =>
        \E i \in 1..Len(calls) : calls[i].op = "Invoke"

----------------------------------------------------------------------------
\* the baseline handed to check carries a version that parses as an
\* integer; the Version struct of revision 2 decodes a record without a
\* version field to Version 0
BaselineHasInteger ==
    LET b == Val(cmd).Version
    IN IF rev = 2 THEN ~IsNil(b) /\ Val(b).Version # 0
       ELSE ~IsNil(BaselineVersion)

\* C27: an unaliased check returns more than one version only when the
\* baseline carries a version that parses as an integer; for a baseline
\* record without one, such as one holding only a timestamp, it returns at
\* most the single newest version.
C27_HistoryOnlyForNumericBaseline ==
    (IsCheckRun /\ Unaliased /\ HandlerReturnedOk /\ Len(Emitted) > 1) =>
        BaselineHasInteger

----------------------------------------------------------------------------
\* names the handlers hand to the scoped writers File and JSON
WrittenNames == {"result.json", "result.payload.json", "version"}

\* the file D/N, resolved against the directory the process started in
UnderWorkingDirectory(name) ==
    WrittenPath(NoDirectory, JoinDirectory(directory, name))

\* C28: for every working-directory argument D, absolute or relative, and
\* every name N, File(N, ...) and JSON(N, ...) called from a handler write
\* the file D/N as resolved against the directory the process was started
\* in.
C28_WritesLandUnderWorkingDirectory ==
    \A i \in 1..Len(files) :
        \E n \in WrittenNames : files[i].path = UnderWorkingDirectory(n)

====
